---- MODULE Spec2Model ----
(***************************************************************************)
(* Code Comparison Tool (src/main.py): the two code extractors, the set    *)
(* comparator and the request that main() runs over them.                  *)
(*                                                                         *)
(* A Python str is a sequence of one-character strings.  A value that is   *)
(* not a str (None, a tuple returned by re.findall) is written with marks  *)
(* that are longer than one character, so it never equals a str.           *)
(***************************************************************************)
EXTENDS Integers, Sequences, FiniteSets, TLC

VARIABLES
    pc,                   \* position of the running call or request
    code_file,            \* main.py:45  the uploaded tabular file
    text_file,            \* main.py:46  the uploaded document
    custom_pattern,       \* main.py:47  the pattern text
    excel_codes,          \* main.py:51
    word_codes,           \* main.py:52
    matching_codes,       \* main.py:55
    codes_only_in_excel,  \* main.py:55
    codes_only_in_word,   \* main.py:55
    result_df,            \* main.py:65  the three columns of the table
    processed_data,       \* main.py:76  the bytes behind the download button
    panels,               \* main.py:84-97 the three displayed panels
    st_errors,            \* messages shown with st.error, in order
    raised,               \* the exception that ended the run, or NoException
    calls,                \* compare_codes calls made on the same two sets
    first_result,         \* what the first of those calls returned
    arg_excel,            \* the two sets as they were before the first call
    arg_word,
    outcome,              \* what an extractor called on its own left behind
    log                   \* finished requests of the session, oldest first

vars == <<pc, code_file, text_file, custom_pattern, excel_codes, word_codes,
          matching_codes, codes_only_in_excel, codes_only_in_word, result_df,
          processed_data, panels, st_errors, raised, calls, first_result,
          arg_excel, arg_word, outcome, log>>

-----------------------------------------------------------------------------
(* Bounds of the model.                                                    *)

MaxRows == 3        \* data rows of a tabular file
MaxTextLen == 4     \* bytes of a .txt file
MaxParas == 2       \* paragraphs of a .docx file
MaxCodes == 3       \* members of each set handed to compare_codes alone
MaxRequests == 3    \* requests of one session

-----------------------------------------------------------------------------
(* Strings.                                                                *)

DigitChars == <<"0", "1", "2", "3", "4", "5", "6", "7", "8", "9">>
Digits == {DigitChars[i] : i \in 1..10}
DigitVal(c) == (CHOOSE i \in 1..10 : DigitChars[i] = c) - 1

\* str.endswith
EndsWith(s, suffix) ==
    /\ Len(s) >= Len(suffix)
    /\ SubSeq(s, Len(s) - Len(suffix) + 1, Len(s)) = suffix

\* All sequences over alphabet of length at most n.
RECURSIVE SeqsUpTo(_, _)
SeqsUpTo(alphabet, n) ==
    IF n = 0 THEN {<<>>}
    ELSE LET shorter == SeqsUpTo(alphabet, n - 1)
         IN  shorter \cup {Append(s, a) : s \in shorter, a \in alphabet}

\* int(s) for a string of decimal digits
RECURSIVE StrToInt(_)
StrToInt(s) ==
    IF s = <<>> THEN 0
    ELSE 10 * StrToInt(SubSeq(s, 1, Len(s) - 1)) + DigitVal(s[Len(s)])

\* str(n) for an int n >= 0
RECURSIVE IntToStr(_)
IntToStr(n) ==
    IF n < 10 THEN <<DigitChars[n + 1]>>
    ELSE Append(IntToStr(n \div 10), DigitChars[(n % 10) + 1])

IsDigitText(s) == s # <<>> /\ \A i \in 1..Len(s) : s[i] \in Digits

NanStr == <<"n", "a", "n">>
NoException == "none"

-----------------------------------------------------------------------------
(* Tabular files.  Only the first column is modelled: a file is its name,  *)
(* whether the parser can read it, and the first cell of each data row     *)
(* (the header row is not a data row).  A csv cell is its text; an xlsx    *)
(* cell is a text cell, a number cell or an empty cell.  An empty first    *)
(* cell stands in a row that has a value in another column.                *)

TextCell(s) == [kind |-> "text", s |-> s, n |-> 0]
NumCell(n) == [kind |-> "num", s |-> <<>>, n |-> n]
BlankCell == [kind |-> "blank", s |-> <<>>, n |-> 0]

\* File names.  The uploaders of main.py:45-46 compare the extension without
\* regard to case, so "a.CSV" and "a.TXT" reach the extractors through
\* main(); "a.xls" and "a.doc" reach them only when they are called directly.
CsvName == <<"a", ".", "c", "s", "v">>
XlsxName == <<"a", ".", "x", "l", "s", "x">>
UpperCsvName == <<"a", ".", "C", "S", "V">>
XlsName == <<"a", ".", "x", "l", "s">>
TxtName == <<"a", ".", "t", "x", "t">>
DocxName == <<"a", ".", "d", "o", "c", "x">>
UpperTxtName == <<"a", ".", "T", "X", "T">>
DocName == <<"a", ".", "d", "o", "c">>

CsvCells ==
    {TextCell(<<"I", "-", "4">>), TextCell(<<"I", "-", "7">>),
     TextCell(<<"4">>), TextCell(<<"0", "7">>), BlankCell}
\* (the text cells of an xlsx file drawn here hold no all-digit text)
XlsxCells ==
    {TextCell(<<"I", "-", "4">>), TextCell(<<"I", "-", "7">>),
     NumCell(4), NumCell(7), BlankCell}

TabularFile(name, readable, rows) ==
    [name |-> name, readable |-> readable, rows |-> rows]

CodeFiles ==
    {TabularFile(CsvName, TRUE, r) : r \in SeqsUpTo(CsvCells, MaxRows)}
    \cup {TabularFile(XlsxName, TRUE, r) : r \in SeqsUpTo(XlsxCells, MaxRows)}
    \cup {TabularFile(n, TRUE, r) :
            n \in {UpperCsvName, XlsName}, r \in SeqsUpTo(CsvCells, 1)}
    \cup {TabularFile(n, FALSE, <<>>) : n \in {CsvName, XlsxName}}

\* pd.read_csv / pd.read_excel, first column: the values and dtype pandas
\* gives the column, then .astype(str).
IsNaCell(cell) ==
    cell.kind = "blank" \/ (cell.kind = "text" /\ cell.s = <<>>)

\* whether pandas reads the cell as a number (csv: the field is all digits;
\* xlsx: the cell holds a number)
IsNumeric(isCsv, cell) ==
    \/ cell.kind = "num"
    \/ isCsv /\ cell.kind = "text" /\ IsDigitText(cell.s)

CellInt(cell) == IF cell.kind = "num" THEN cell.n ELSE StrToInt(cell.s)

ColumnDtype(isCsv, rows) ==
    LET idx == 1..Len(rows)
        present == {i \in idx : ~IsNaCell(rows[i])}
    IN  IF \E i \in present : ~IsNumeric(isCsv, rows[i]) THEN "object"
        ELSE IF present = idx THEN "int64"
        ELSE "float64"

\* one value of df.iloc[:, 0].astype(str)
AsTypeStr(isCsv, dtype, cell) ==
    IF IsNaCell(cell) THEN NanStr
    ELSE IF dtype = "int64" THEN IntToStr(CellInt(cell))
    ELSE IF dtype = "float64" THEN IntToStr(CellInt(cell)) \o <<".", "0">>
    ELSE IF cell.kind = "num" THEN IntToStr(cell.n)
    ELSE cell.s

FirstColumnAsStr(isCsv, rows) ==
    LET dtype == ColumnDtype(isCsv, rows)
    IN  [i \in 1..Len(rows) |-> AsTypeStr(isCsv, dtype, rows[i])]

Range(f) == {f[i] : i \in DOMAIN f}

\* What a call leaves behind: the value returned (when it returned), the
\* exception raised (when it did not), and the st.error messages shown.
Returned(value, shown) ==
    [returned |-> TRUE, value |-> value, raised |-> NoException, shown |-> shown]
Raised(exc) ==
    [returned |-> FALSE, value |-> {}, raised |-> exc, shown |-> <<>>]

UnsupportedMessage == "Unsupported file format!"

\* Mutant: the codes are gathered in a set that outlives the call, so a
\* call also returns the codes the previous request's tabular file gave.
extract_codes_from_excel_or_csv_cached(file) ==
    LET kept == IF log = <<>> THEN {}
                ELSE log[Len(log)].matching_codes
                     \cup log[Len(log)].codes_only_in_excel
    IN  IF EndsWith(file.name, <<".", "x", "l", "s", "x">>)
        THEN IF ~file.readable THEN Raised("ParseError")
             ELSE Returned(kept \cup Range(FirstColumnAsStr(FALSE, file.rows)), <<>>)
        ELSE IF EndsWith(file.name, <<".", "c", "s", "v">>)
        THEN IF ~file.readable THEN Raised("ParseError")
             ELSE Returned(kept \cup Range(FirstColumnAsStr(TRUE, file.rows)), <<>>)
        ELSE Returned(kept, <<UnsupportedMessage>>)

\* main.py:8-17
extract_codes_from_excel_or_csv(file) ==
    IF EndsWith(file.name, <<".", "x", "l", "s", "x">>)
    THEN IF ~file.readable THEN Raised("ParseError")
         ELSE Returned(Range(FirstColumnAsStr(FALSE, file.rows)), <<>>)
    ELSE IF EndsWith(file.name, <<".", "c", "s", "v">>)
    THEN IF ~file.readable THEN Raised("ParseError")
         ELSE Returned(Range(FirstColumnAsStr(TRUE, file.rows)), <<>>)
    ELSE Returned({}, <<UnsupportedMessage>>)

-----------------------------------------------------------------------------
(* Regular expressions: re.findall(pattern, text), main.py:28.             *)
(* The patterns drawn are written with literal characters, \d, +, groups   *)
(* ( ) and character sets [ ]; a pattern is parsed from its characters and *)
(* matched by backtracking, the alternatives of a repeat tried greedily.   *)

Letters == {"I", "d"}

\* ord(c) of the characters a pattern is written with
Ord(c) ==
    CASE c = "(" -> 40 [] c = ")" -> 41 [] c = "+" -> 43 [] c = "-" -> 45
      [] c \in Digits -> 48 + DigitVal(c)
      [] c = "I" -> 73 [] c = "[" -> 91 [] c = "\\" -> 92 [] c = "]" -> 93
      [] c = "d" -> 100

\* the characters a set may contain: those texts and patterns are written in
Universe == {"(", ")", "+", "-", "I", "[", "\\", "]", "d", "\n"} \cup Digits

SetNode(cs) == [t |-> "set", cs |-> cs, idx |-> 0, body |-> <<>>, plus |-> FALSE]
GroupNode(idx, body) ==
    [t |-> "group", cs |-> {}, idx |-> idx, body |-> body, plus |-> FALSE]

ParseOk(items, next, ng) == [err |-> "", items |-> items, next |-> next, ng |-> ng]
ParseErr(msg) == [err |-> msg, items |-> <<>>, next |-> 0, ng |-> 0]

\* An escape at p[i] = "\\": the set it stands for, whether it is a
\* category (\d), and the index after it.
EscapeAt(p, i) ==
    IF i + 1 > Len(p)
    THEN [err |-> "bad escape (end of pattern)", cs |-> {}, cat |-> FALSE, next |-> 0]
    ELSE IF p[i + 1] = "d"
    THEN [err |-> "", cs |-> Digits, cat |-> TRUE, next |-> i + 2]
    ELSE IF p[i + 1] \in Letters
    THEN [err |-> "bad escape", cs |-> {}, cat |-> FALSE, next |-> 0]
    ELSE [err |-> "", cs |-> {p[i + 1]}, cat |-> FALSE, next |-> i + 2]

\* One member of a character set at p[i].
ClassAtom(p, i) ==
    IF p[i] = "\\" THEN EscapeAt(p, i)
    ELSE [err |-> "", cs |-> {p[i]}, cat |-> FALSE, next |-> i + 1]

\* The inside of [ ... ], from p[i]; acc is the set read so far and first
\* tells whether p[i] is the first member (where "]" is a literal).
RECURSIVE ParseClass(_, _, _, _)
ParseClass(p, i, acc, first) ==
    IF i > Len(p) THEN [err |-> "unterminated character set", cs |-> {}, next |-> 0]
    ELSE IF p[i] = "]" /\ ~first THEN [err |-> "", cs |-> acc, next |-> i + 1]
    ELSE
      LET lo == ClassAtom(p, i)
      IN  IF lo.err # "" THEN [err |-> lo.err, cs |-> {}, next |-> 0]
          ELSE IF lo.next <= Len(p) /\ p[lo.next] = "-"
          THEN IF lo.next + 1 > Len(p)
               THEN [err |-> "unterminated character set", cs |-> {}, next |-> 0]
               ELSE IF p[lo.next + 1] = "]"
               THEN [err |-> "", cs |-> acc \cup lo.cs \cup {"-"}, next |-> lo.next + 2]
               ELSE
                 LET hi == ClassAtom(p, lo.next + 1)
                 IN  IF hi.err # "" THEN [err |-> hi.err, cs |-> {}, next |-> 0]
                     ELSE IF lo.cat \/ hi.cat
                     THEN [err |-> "bad character range", cs |-> {}, next |-> 0]
                     ELSE
                       LET a == Ord(CHOOSE c \in lo.cs : TRUE)
                           b == Ord(CHOOSE c \in hi.cs : TRUE)
                       IN  IF b < a
                           THEN [err |-> "bad character range", cs |-> {}, next |-> 0]
                           ELSE ParseClass(p, hi.next,
                                    acc \cup {c \in Universe \ {"\n"} :
                                                 a <= Ord(c) /\ Ord(c) <= b},
                                    FALSE)
          ELSE ParseClass(p, lo.next, acc \cup lo.cs, FALSE)

\* The items of a (sub)pattern from p[i]; ng groups were opened before it,
\* nested tells whether it is inside ( ), acc holds the items read so far.
\* A nested subpattern ends at its ")" (next points at it).
RECURSIVE ParseItems(_, _, _, _, _)
ParseItems(p, i, ng, nested, acc) ==
    IF i > Len(p)
    THEN IF nested THEN ParseErr("missing ), unterminated subpattern")
         ELSE ParseOk(acc, i, ng)
    ELSE IF p[i] = ")"
    THEN IF nested THEN ParseOk(acc, i, ng)
         ELSE ParseErr("unbalanced parenthesis")
    ELSE IF p[i] = "+"     \* (no pattern drawn repeats a repeat)
    THEN IF acc = <<>> THEN ParseErr("nothing to repeat")
         ELSE IF acc[Len(acc)].plus THEN ParseErr("multiple repeat")
         ELSE ParseItems(p, i + 1, ng, nested,
                         [acc EXCEPT ![Len(acc)].plus = TRUE])
    ELSE IF p[i] = "("
    THEN LET sub == ParseItems(p, i + 1, ng + 1, TRUE, <<>>)
         IN  IF sub.err # "" THEN sub
             ELSE ParseItems(p, sub.next + 1, sub.ng, nested,
                             Append(acc, GroupNode(ng + 1, sub.items)))
    ELSE IF p[i] = "["
    THEN LET cls == ParseClass(p, i + 1, {}, TRUE)
         IN  IF cls.err # "" THEN ParseErr(cls.err)
             ELSE ParseItems(p, cls.next, ng, nested, Append(acc, SetNode(cls.cs)))
    ELSE IF p[i] = "\\"
    THEN LET esc == EscapeAt(p, i)
         IN  IF esc.err # "" THEN ParseErr(esc.err)
             ELSE ParseItems(p, esc.next, ng, nested, Append(acc, SetNode(esc.cs)))
    ELSE ParseItems(p, i + 1, ng, nested, Append(acc, SetNode({p[i]})))

\* re.compile(pattern): the parsed pattern, or the re.error
Compile(pattern) == ParseItems(pattern, 1, 0, FALSE, <<>>)

\* Matching.  A position is the number of characters before it.  Each
\* operator returns the ways its part can match from pos, as a sequence in
\* the order the backtracking matcher tries them: [end, groups].
RECURSIVE MatchItems(_, _, _, _, _)
RECURSIVE MatchAtom(_, _, _, _)
RECURSIVE MatchPlus(_, _, _, _)
RECURSIVE ThenItems(_, _, _, _, _)
RECURSIVE ThenMore(_, _, _, _, _)
RECURSIVE CloseGroup(_, _, _, _, _)

\* items[k..] from pos
MatchItems(items, k, text, pos, groups) ==
    IF k > Len(items) THEN <<[end |-> pos, groups |-> groups]>>
    ELSE ThenItems(IF items[k].plus
                   THEN MatchPlus(items[k], text, pos, groups)
                   ELSE MatchAtom(items[k], text, pos, groups),
                   1, items, k + 1, text)

\* each way of found[j..], continued with items[k..]
ThenItems(found, j, items, k, text) ==
    IF j > Len(found) THEN <<>>
    ELSE MatchItems(items, k, text, found[j].end, found[j].groups)
         \o ThenItems(found, j + 1, items, k, text)

\* one occurrence of the node, without its repeat
MatchAtom(node, text, pos, groups) ==
    IF node.t = "set"
    THEN IF pos < Len(text) /\ text[pos + 1] \in node.cs
         THEN <<[end |-> pos + 1, groups |-> groups]>>
         ELSE <<>>
    ELSE CloseGroup(MatchItems(node.body, 1, text, pos, groups), 1,
                    node.idx, text, pos)

\* each way of found[j..], with group idx set to what it spans
CloseGroup(found, j, idx, text, pos) ==
    IF j > Len(found) THEN <<>>
    ELSE <<[end |-> found[j].end,
            groups |-> [found[j].groups EXCEPT
                          ![idx] = SubSeq(text, pos + 1, found[j].end)]]>>
         \o CloseGroup(found, j + 1, idx, text, pos)

\* node+ : one occurrence, then as many more as match (greedy), then fewer
MatchPlus(node, text, pos, groups) ==
    ThenMore(MatchAtom(node, text, pos, groups), 1, node, text, pos)

ThenMore(found, j, node, text, pos) ==
    IF j > Len(found) THEN <<>>
    ELSE (IF found[j].end > pos
          THEN MatchPlus(node, text, found[j].end, found[j].groups)
          ELSE <<>>)
         \o <<found[j]>>
         \o ThenMore(found, j + 1, node, text, pos)

NoGroups(ng) == [g \in 1..ng |-> <<>>]

\* The first way in found[j..] that the search accepts: after an empty
\* match the next one may not be empty at the same position.
RECURSIVE FirstAccepted(_, _, _, _)
FirstAccepted(found, j, start, barEmpty) ==
    IF j > Len(found) THEN <<>>
    ELSE IF barEmpty /\ found[j].end = start
    THEN FirstAccepted(found, j + 1, start, barEmpty)
    ELSE <<found[j]>>

\* The matches of the scan from pos on, left to right, non-overlapping:
\* [start, end, groups].  must_advance: the previous match was empty.
RECURSIVE Scan(_, _, _, _, _, _)
Scan(items, ng, text, pos, start, must_advance) ==
    IF start > Len(text) THEN <<>>
    ELSE
      LET m == FirstAccepted(MatchItems(items, 1, text, start, NoGroups(ng)), 1,
                             start, must_advance /\ start = pos)
      IN  IF m = <<>> THEN Scan(items, ng, text, pos, start + 1, must_advance)
          ELSE <<[start |-> start, end |-> m[1].end, groups |-> m[1].groups]>>
               \o Scan(items, ng, text, m[1].end, m[1].end, m[1].end = start)

\* A tuple of strings, as distinct from every str.
RECURSIVE TupleBody(_, _)
TupleBody(gs, i) ==
    IF i > Len(gs) THEN <<>>
    ELSE (IF i = 1 THEN <<>> ELSE <<"tuple,">>) \o gs[i] \o TupleBody(gs, i + 1)
TupleOf(gs) == <<"tuple(">> \o TupleBody(gs, 1) \o <<"tuple)">>

\* What findall lists for a match: the whole match when the pattern has no
\* group, the group when it has one, the tuple of groups when it has more.
FindallItem(ng, text, m) ==
    IF ng = 0 THEN SubSeq(text, m.start + 1, m.end)
    ELSE IF ng = 1 THEN m.groups[1]
    ELSE TupleOf(m.groups)

\* re.findall(pattern, text) for a pattern that compiles
Findall(compiled, text) ==
    LET ms == Scan(compiled.items, compiled.ng, text, 0, 0, FALSE)
    IN  [i \in 1..Len(ms) |-> FindallItem(compiled.ng, text, ms[i])]

-----------------------------------------------------------------------------
(* Documents.  A .docx is its paragraphs; a .txt is its bytes, each an     *)
(* ASCII character or a byte that is not valid UTF-8.                      *)

BadByte == "0xFF"

Document(name, readable, paras, bytes) ==
    [name |-> name, readable |-> readable, paras |-> paras, bytes |-> bytes]

\* "\n".join(paras)
RECURSIVE JoinLines(_, _)
JoinLines(paras, i) ==
    IF i > Len(paras) THEN <<>>
    ELSE (IF i = 1 THEN <<>> ELSE <<"\n">>) \o paras[i] \o JoinLines(paras, i + 1)

\* bytes.decode('utf-8') succeeds
Decodable(bytes) == \A i \in 1..Len(bytes) : bytes[i] # BadByte

\* Mutant: a pattern that does not compile is swallowed and gives no codes.
FindCodes_swallowed(pattern, text) ==
    LET compiled == Compile(pattern)
    IN  IF compiled.err # "" THEN Returned({}, <<>>)
        ELSE Returned(Range(Findall(compiled, text)), <<>>)

\* set(re.findall(pattern, text)), main.py:28
FindCodes(pattern, text) ==
    LET compiled == Compile(pattern)
    IN  IF compiled.err # "" THEN Raised("InvalidPattern")
        ELSE Returned(Range(Findall(compiled, text)), <<>>)

extract_codes_from_text_or_word(file, pattern) ==
    IF EndsWith(file.name, <<".", "d", "o", "c", "x">>)
    THEN IF ~file.readable THEN Raised("ParseError")
         ELSE FindCodes(pattern, JoinLines(file.paras, 1))
    ELSE IF EndsWith(file.name, <<".", "t", "x", "t">>)
    THEN IF ~Decodable(file.bytes) THEN Raised("DecodeError")
         ELSE FindCodes(pattern, file.bytes)
    ELSE Returned({}, <<UnsupportedMessage>>)

\* Mutant: the two differences are taken the wrong way round.
compare_codes_swapped(excel, word) ==
    [matching_codes |-> excel \cap word,
     codes_only_in_excel |-> word \ excel,
     codes_only_in_word |-> excel \ word,
     excel_codes |-> excel,
     word_codes |-> word]

\* Mutant: an empty right-hand set short-cuts to three empty sets.
compare_codes_shortcut(excel, word) ==
    [matching_codes |-> excel \cap word,
     codes_only_in_excel |-> IF word = {} THEN {} ELSE excel \ word,
     codes_only_in_word |-> word \ excel,
     excel_codes |-> excel,
     word_codes |-> word]

\* Mutant: the left-only codes are taken in place (excel_codes -= word_codes).
compare_codes_inplace(excel, word) ==
    [matching_codes |-> excel \cap word,
     codes_only_in_excel |-> excel \ word,
     codes_only_in_word |-> word \ excel,
     excel_codes |-> excel \ word,
     word_codes |-> word]

\* main.py:31-35.  The two argument sets are objects the caller still
\* holds: excel_codes and word_codes are what they hold after the call
\* (intersection and - build new sets and leave their operands alone).
compare_codes(excel, word) ==
    [matching_codes |-> excel \cap word,
     codes_only_in_excel |-> excel \ word,
     codes_only_in_word |-> word \ excel,
     excel_codes |-> excel,
     word_codes |-> word]

-----------------------------------------------------------------------------
(* The inputs drawn.                                                       *)

DefaultPattern == <<"I", "-", "\\", "d", "+">>          \* I-\d+
UnclosedPattern == <<"[", "I">>                          \* [I

Patterns ==
    {DefaultPattern,
     <<"\\", "d">>,                                      \* \d
     <<"(", "I", ")", "-", "\\", "d", "+">>,             \* (I)-\d+
     <<"(", "I", ")", "-", "(", "\\", "d", "+", ")">>,   \* (I)-(\d+)
     <<"(", "I", "-", "\\", "d", "+", ")">>,             \* (I-\d+)
     <<"[", "4", "-", "7", "]", "+">>,                   \* [4-7]+
     <<>>,                                               \* the empty pattern
     UnclosedPattern,
     <<"(", "I">>,                                       \* (I
     <<"+">>}                                            \* +

TextBytes == {"I", "-", "4", "7", BadByte}
Paragraphs == {<<>>, <<"I", "-", "4">>, <<"4">>, <<"-", "7">>}

TextFiles ==
    {Document(TxtName, TRUE, <<>>, b) : b \in SeqsUpTo(TextBytes, MaxTextLen)}
    \cup {Document(DocxName, TRUE, ps, <<>>) : ps \in SeqsUpTo(Paragraphs, MaxParas)}
    \cup {Document(n, TRUE, <<>>, <<"I", "-", "4">>) : n \in {UpperTxtName, DocName}}
    \cup {Document(DocxName, FALSE, <<>>, <<>>)}

\* no file uploaded: st.file_uploader returns None
NoCodeFile == TabularFile(<<>>, FALSE, <<>>)
NoTextFile == Document(<<>>, FALSE, <<>>, <<>>)

MainCodeFiles ==
    {NoCodeFile,
     TabularFile(CsvName, TRUE,
                 <<TextCell(<<"I", "-", "4">>), TextCell(<<"I", "-", "7">>),
                   TextCell(<<"4">>), TextCell(<<"I", "-", "4">>)>>),
     TabularFile(CsvName, TRUE, <<TextCell(<<"0", "7">>)>>),
     TabularFile(CsvName, TRUE, <<>>),
     TabularFile(XlsxName, TRUE, <<TextCell(<<"I", "-", "4">>), BlankCell>>),
     TabularFile(UpperCsvName, TRUE, <<TextCell(<<"I", "-", "4">>)>>),
     TabularFile(XlsxName, FALSE, <<>>)}

MainTextFiles ==
    {NoTextFile,
     Document(DocxName, TRUE, <<<<"I", "-", "4">>, <<"I", "-", "4", "7">>>>, <<>>),
     Document(TxtName, TRUE, <<>>, <<"I", "-", "4", "-", "7", "I", "-", "4">>),
     Document(TxtName, TRUE, <<>>, <<>>),
     Document(TxtName, TRUE, <<>>, <<"I", "-", "4", BadByte>>),
     Document(UpperTxtName, TRUE, <<>>, <<"I", "-", "4">>),
     Document(DocxName, FALSE, <<>>, <<>>)}

SessionCodeFiles ==
    {TabularFile(CsvName, TRUE,
                 <<TextCell(<<"I", "-", "4">>), TextCell(<<"I", "-", "7">>)>>),
     TabularFile(UpperCsvName, TRUE, <<TextCell(<<"I", "-", "4">>)>>)}
SessionTextFiles ==
    {Document(DocxName, TRUE, <<<<"I", "-", "4">>>>, <<>>),
     Document(TxtName, TRUE, <<>>, <<"4", BadByte>>)}
SessionPatterns == {DefaultPattern, UnclosedPattern}

CodeUniverse == {<<>>, <<"4">>, <<"I", "-", "4">>, <<"I", "-", "7">>}
CodeSets == {s \in SUBSET CodeUniverse : Cardinality(s) <= MaxCodes}

-----------------------------------------------------------------------------
(* The result table, main.py:57-69.                                        *)

None == <<"None">>

Max3(a, b, c) ==
    IF a >= b /\ a >= c THEN a ELSE IF b >= c THEN b ELSE c

\* main.py:58
max_len(matching, only_excel, only_word) ==
    Max3(Cardinality(matching), Cardinality(only_excel), Cardinality(only_word))

\* list(s): the members of the set once each, in an order Python chooses
Lists(s) ==
    {l \in [1..Cardinality(s) -> s] : \A i, j \in DOMAIN l : l[i] = l[j] => i = j}

\* [None] * n, which is [] when n <= 0
NoneTimes(n) == [i \in 1..n |-> None]

\* Mutant: every list gets one None too many.
Padded_one_more(list, len) == list \o NoneTimes(len - Len(list) + 1)

\* main.py:60-62
Padded(list, len) == list \o NoneTimes(len - Len(list))

Column(name, cells) == [name |-> name, cells |-> cells]

\* df[[name]].dropna(): the rows whose cell is not None
RECURSIVE DropNa(_)
DropNa(cells) ==
    IF cells = <<>> THEN <<>>
    ELSE (IF cells[1] = None THEN <<>> ELSE <<cells[1]>>) \o DropNa(Tail(cells))

\* result_df.to_excel(writer, index=False): a header row, then one row per
\* table row with the None cells left empty
EmptyCell == <<"empty">>
ToExcel(df) ==
    [header |-> [k \in DOMAIN df |-> df[k].name],
     columns |-> [k \in DOMAIN df |->
                    [i \in DOMAIN df[k].cells |->
                       IF df[k].cells[i] = None THEN EmptyCell
                       ELSE df[k].cells[i]]]]

-----------------------------------------------------------------------------
(* One run of main(), main.py:37-97.                                       *)

NoResult ==
    [matching_codes |-> {}, codes_only_in_excel |-> {}, codes_only_in_word |-> {},
     excel_codes |-> {}, word_codes |-> {}]
NoOutcome == [returned |-> FALSE, value |-> {}, raised |-> NoException, shown |-> <<>>]

\* the local variables of a run that has not assigned them yet
FreshLocals ==
    /\ excel_codes = {} /\ word_codes = {}
    /\ matching_codes = {} /\ codes_only_in_excel = {} /\ codes_only_in_word = {}
    /\ result_df = <<>> /\ processed_data = <<>> /\ panels = <<>>
    /\ st_errors = <<>> /\ raised = NoException

Unused ==
    /\ calls = 0 /\ first_result = NoResult /\ arg_excel = {} /\ arg_word = {}
    /\ outcome = NoOutcome

Init ==
    /\ pc = "main_49"
    /\ code_file \in MainCodeFiles
    /\ text_file \in MainTextFiles
    /\ custom_pattern \in Patterns
    /\ FreshLocals
    /\ Unused
    /\ log = <<>>

inputs == <<code_file, text_file, custom_pattern>>
cmp_ghosts == <<calls, first_result, arg_excel, arg_word, outcome>>
results == <<matching_codes, codes_only_in_excel, codes_only_in_word>>
outputs == <<result_df, processed_data, panels>>

\* main.py:49  if code_file and text_file:
Main49 ==
    /\ pc = "main_49"
    /\ pc' = IF code_file # NoCodeFile /\ text_file # NoTextFile
             THEN "main_51" ELSE "main_skip"
    /\ UNCHANGED <<inputs, excel_codes, word_codes, results, outputs, st_errors,
                   raised, cmp_ghosts, log>>

\* main.py:51
Main51 ==
    /\ pc = "main_51"
    /\ LET r == extract_codes_from_excel_or_csv(code_file)
       IN  /\ st_errors' = st_errors \o r.shown
           /\ IF r.returned
              THEN excel_codes' = r.value /\ pc' = "main_52" /\ UNCHANGED raised
              ELSE raised' = r.raised /\ pc' = "main_raised" /\ UNCHANGED excel_codes
    /\ UNCHANGED <<inputs, word_codes, results, outputs, cmp_ghosts, log>>

\* main.py:52
Main52 ==
    /\ pc = "main_52"
    /\ LET r == extract_codes_from_text_or_word(text_file, custom_pattern)
       IN  /\ st_errors' = st_errors \o r.shown
           /\ IF r.returned
              THEN word_codes' = r.value /\ pc' = "main_55" /\ UNCHANGED raised
              ELSE raised' = r.raised /\ pc' = "main_raised" /\ UNCHANGED word_codes
    /\ UNCHANGED <<inputs, excel_codes, results, outputs, cmp_ghosts, log>>

\* main.py:55
Main55 ==
    /\ pc = "main_55"
    /\ LET r == compare_codes(excel_codes, word_codes)
       IN  /\ matching_codes' = r.matching_codes
           /\ codes_only_in_excel' = r.codes_only_in_excel
           /\ codes_only_in_word' = r.codes_only_in_word
           /\ excel_codes' = r.excel_codes
           /\ word_codes' = r.word_codes
    /\ pc' = "main_58"
    /\ UNCHANGED <<inputs, outputs, st_errors, raised, cmp_ghosts, log>>

\* main.py:58-69.  pd.DataFrame raises ValueError when the lists it is
\* given differ in length.
Main58 ==
    /\ pc = "main_58"
    /\ \E m \in Lists(matching_codes), e \in Lists(codes_only_in_excel),
          w \in Lists(codes_only_in_word) :
          LET len == max_len(matching_codes, codes_only_in_excel, codes_only_in_word)
              matching_codes_list == Padded(m, len)
              codes_only_in_excel_list == Padded(e, len)
              codes_only_in_word_list == Padded(w, len)
          IN  IF /\ Len(matching_codes_list) = Len(codes_only_in_excel_list)
                 /\ Len(matching_codes_list) = Len(codes_only_in_word_list)
              THEN /\ result_df' =
                        <<Column("Matching codes", matching_codes_list),
                          Column("Codes only in Excel/CSV", codes_only_in_excel_list),
                          Column("Codes only in Word/TXT", codes_only_in_word_list)>>
                   /\ pc' = "main_72"
                   /\ UNCHANGED raised
              ELSE /\ raised' = "ValueError"
                   /\ pc' = "main_raised"
                   /\ UNCHANGED result_df
    /\ UNCHANGED <<inputs, excel_codes, word_codes, results, processed_data, panels,
                   st_errors, cmp_ghosts, log>>

\* main.py:72-80  the workbook behind the download button
Main72 ==
    /\ pc = "main_72"
    /\ processed_data' = ToExcel(result_df)
    /\ pc' = "main_84"
    /\ UNCHANGED <<inputs, excel_codes, word_codes, results, result_df, panels,
                   st_errors, raised, cmp_ghosts, log>>

\* main.py:84-97  the three panels
Main84 ==
    /\ pc = "main_84"
    /\ panels' = [k \in DOMAIN result_df |-> DropNa(result_df[k].cells)]
    /\ pc' = "main_end"
    /\ UNCHANGED <<inputs, excel_codes, word_codes, results, result_df,
                   processed_data, st_errors, raised, cmp_ghosts, log>>

Next == Main49 \/ Main51 \/ Main52 \/ Main55 \/ Main58 \/ Main72 \/ Main84

Spec == Init /\ [][Next]_vars

-----------------------------------------------------------------------------
(* A session: one run of main() after another (Streamlit runs the script   *)
(* again, from the top, for every request).                                *)

RunOver == pc \in {"main_end", "main_raised", "main_skip"}

InitSession ==
    /\ pc = "idle"
    /\ code_file = NoCodeFile /\ text_file = NoTextFile /\ custom_pattern = <<>>
    /\ FreshLocals
    /\ Unused
    /\ log = <<>>

\* a request arrives: main() starts with the widgets' values
NewRequest ==
    /\ pc = "idle"
    /\ Len(log) < MaxRequests
    /\ code_file' \in SessionCodeFiles
    /\ text_file' \in SessionTextFiles
    /\ custom_pattern' \in SessionPatterns
    /\ pc' = "main_49"
    /\ UNCHANGED <<excel_codes, word_codes, results, outputs, st_errors, raised,
                   cmp_ghosts, log>>

\* the run is over: its frame is dropped; log keeps what it showed
EndRequest ==
    /\ RunOver
    /\ log' = Append(log, [code_file |-> code_file, text_file |-> text_file,
                           custom_pattern |-> custom_pattern,
                           raised |-> raised, st_errors |-> st_errors,
                           matching_codes |-> matching_codes,
                           codes_only_in_excel |-> codes_only_in_excel,
                           codes_only_in_word |-> codes_only_in_word,
                           shown |-> panels # <<>>])
    /\ pc' = "idle"
    /\ excel_codes' = {} /\ word_codes' = {}
    /\ matching_codes' = {} /\ codes_only_in_excel' = {} /\ codes_only_in_word' = {}
    /\ result_df' = <<>> /\ processed_data' = <<>> /\ panels' = <<>>
    /\ st_errors' = <<>> /\ raised' = NoException
    /\ UNCHANGED <<inputs, cmp_ghosts>>

NextSession == NewRequest \/ Next \/ EndRequest

SpecSession == InitSession /\ [][NextSession]_vars

-----------------------------------------------------------------------------
(* Each extractor called on its own.                                       *)

InitExtract ==
    /\ \/ /\ pc = "excel_call"
          /\ code_file \in CodeFiles
          /\ text_file = NoTextFile /\ custom_pattern = <<>>
       \/ /\ pc = "text_call"
          /\ code_file = NoCodeFile
          /\ text_file \in TextFiles /\ custom_pattern \in Patterns
    /\ FreshLocals
    /\ Unused
    /\ log = <<>>

CallExcel ==
    /\ pc = "excel_call"
    /\ outcome' = extract_codes_from_excel_or_csv(code_file)
    /\ st_errors' = st_errors \o outcome'.shown
    /\ raised' = outcome'.raised
    /\ pc' = "excel_exit"
    /\ UNCHANGED <<inputs, excel_codes, word_codes, results, outputs, calls,
                   first_result, arg_excel, arg_word, log>>

CallText ==
    /\ pc = "text_call"
    /\ outcome' = extract_codes_from_text_or_word(text_file, custom_pattern)
    /\ st_errors' = st_errors \o outcome'.shown
    /\ raised' = outcome'.raised
    /\ pc' = "text_exit"
    /\ UNCHANGED <<inputs, excel_codes, word_codes, results, outputs, calls,
                   first_result, arg_excel, arg_word, log>>

NextExtract == CallExcel \/ CallText

SpecExtract == InitExtract /\ [][NextExtract]_vars

-----------------------------------------------------------------------------
(* compare_codes called on its own, twice on the same two sets.            *)

InitCompare ==
    /\ pc = "compare_call"
    /\ code_file = NoCodeFile /\ text_file = NoTextFile /\ custom_pattern = <<>>
    /\ excel_codes \in CodeSets /\ word_codes \in CodeSets
    /\ arg_excel = excel_codes /\ arg_word = word_codes
    /\ matching_codes = {} /\ codes_only_in_excel = {} /\ codes_only_in_word = {}
    /\ result_df = <<>> /\ processed_data = <<>> /\ panels = <<>>
    /\ st_errors = <<>> /\ raised = NoException
    /\ calls = 0 /\ first_result = NoResult /\ outcome = NoOutcome
    /\ log = <<>>

CallCompare ==
    /\ pc = "compare_call"
    /\ LET r == compare_codes(excel_codes, word_codes)
       IN  /\ matching_codes' = r.matching_codes
           /\ codes_only_in_excel' = r.codes_only_in_excel
           /\ codes_only_in_word' = r.codes_only_in_word
           /\ excel_codes' = r.excel_codes
           /\ word_codes' = r.word_codes
           /\ first_result' = IF calls = 0 THEN r ELSE first_result
    /\ calls' = calls + 1
    /\ pc' = IF calls = 0 THEN "compare_call" ELSE "compare_exit"
    /\ UNCHANGED <<inputs, outputs, st_errors, raised, arg_excel, arg_word,
                   outcome, log>>

NextCompare == CallCompare

SpecCompare == InitCompare /\ [][NextCompare]_vars

-----------------------------------------------------------------------------
(* The properties.                                                         *)

SupportedTabular(file) ==
    EndsWith(file.name, <<".", "x", "l", "s", "x">>)
    \/ EndsWith(file.name, <<".", "c", "s", "v">>)
SupportedDocument(file) ==
    EndsWith(file.name, <<".", "d", "o", "c", "x">>)
    \/ EndsWith(file.name, <<".", "t", "x", "t">>)

\* the document can be opened (.docx) or decoded (.txt)
ReadableDocument(file) ==
    IF EndsWith(file.name, <<".", "d", "o", "c", "x">>) THEN file.readable
    ELSE Decodable(file.bytes)

DocumentText(file) ==
    IF EndsWith(file.name, <<".", "d", "o", "c", "x">>)
    THEN JoinLines(file.paras, 1) ELSE file.bytes

\* the text a cell shows
CellText(cell) == IF cell.kind = "num" THEN IntToStr(cell.n) ELSE cell.s

CompareRan == pc \in {"main_58", "main_72", "main_84", "main_end"}
TableBuilt == pc \in {"main_72", "main_84", "main_end"}
NothingProduced == result_df = <<>> /\ processed_data = <<>> /\ panels = <<>>

\* C1: after compare_codes(L, R), M = L \cap R, LO = L \ R, RO = R \ L,
\* M \cup LO = L, M \cup RO = R, and M, LO, RO are pairwise disjoint.
C1_ComparePartitions ==
    calls >= 1 =>
        /\ matching_codes = arg_excel \cap arg_word
        /\ codes_only_in_excel = arg_excel \ arg_word
        /\ codes_only_in_word = arg_word \ arg_excel
        /\ matching_codes \cup codes_only_in_excel = arg_excel
        /\ matching_codes \cup codes_only_in_word = arg_word
        /\ matching_codes \cap codes_only_in_excel = {}
        /\ matching_codes \cap codes_only_in_word = {}
        /\ codes_only_in_excel \cap codes_only_in_word = {}

C1_Witness ==
    /\ calls >= 1
    /\ matching_codes # {} /\ codes_only_in_excel # {} /\ codes_only_in_word # {}

\* C2 (as claimed): an extractor given a file whose name has an unrecognized
\* extension ends in UnsupportedFormat and returns no CodeSet.
C2_UnsupportedFails ==
    (\/ pc = "excel_exit" /\ ~SupportedTabular(code_file)
     \/ pc = "text_exit" /\ ~SupportedDocument(text_file))
    => /\ outcome.raised = "UnsupportedFormat"
       /\ ~outcome.returned

\* C3 (as claimed): once an error has been reported or raised in a request,
\* compare_codes does not run and no table, download or panel is produced.
C3_ErrorHalts ==
    (st_errors # <<>> \/ raised # NoException)
    => ~CompareRan /\ NothingProduced

\* C4 (as claimed): with a pattern that does not compile, the request has
\* produced no CodeSet unless it has already failed with InvalidPattern.
C4_InvalidPatternFirst ==
    Compile(custom_pattern).err # ""
    => \/ pc \in {"main_49", "main_51", "main_skip"}
       \/ pc = "main_raised" /\ raised = "InvalidPattern"

\* C4 (amended): with a pattern that does not compile and a supported
\* document that can be read, the text extractor fails with InvalidPattern
\* and produces no CodeSet: the request never gets to compare_codes or to
\* any output.  The tabular extractor has run before it; the request ends
\* in InvalidPattern unless the tabular file could not be parsed.
C4_InvalidPatternHalts ==
    (/\ Compile(custom_pattern).err # ""
     /\ SupportedDocument(text_file) /\ ReadableDocument(text_file))
    => /\ pc \in {"main_49", "main_51", "main_52", "main_raised", "main_skip"}
       /\ word_codes = {}
       /\ NothingProduced
       /\ pc = "main_raised" =>
            \/ raised = "InvalidPattern"
            \/ raised = "ParseError" /\ ~code_file.readable

C4_Witness ==
    /\ pc = "main_raised" /\ raised = "InvalidPattern"
    /\ custom_pattern = UnclosedPattern
    /\ excel_codes # {}

\* C5 (as claimed): for a supported, parseable tabular file the extractor
\* returns exactly the texts of the first cells of the data rows.
C5_FirstColumnTexts ==
    (pc = "excel_exit" /\ SupportedTabular(code_file) /\ code_file.readable)
    => /\ outcome.returned
       /\ outcome.value = {CellText(code_file.rows[i]) : i \in DOMAIN code_file.rows}

\* C6 (as claimed): for a supported, readable document and a pattern that
\* compiles, the extractor returns exactly the whole matched substrings of
\* the left-to-right scan.
C6_WholeMatches ==
    (/\ pc = "text_exit"
     /\ SupportedDocument(text_file) /\ ReadableDocument(text_file)
     /\ Compile(custom_pattern).err = "")
    => /\ outcome.returned
       /\ LET text == DocumentText(text_file)
              compiled == Compile(custom_pattern)
              ms == Scan(compiled.items, compiled.ng, text, 0, 0, FALSE)
          IN  outcome.value = {SubSeq(text, ms[i].start + 1, ms[i].end) : i \in DOMAIN ms}

\* C7: compare_codes returns for every pair of sets; on two empty sets it
\* returns three empty sets, and on (L, {}) it returns ({}, L, {}).
C7_CompareTotalAndEmpty ==
    calls >= 1 =>
        /\ raised = NoException
        /\ pc \in {"compare_call", "compare_exit"}
        /\ (arg_excel = {} /\ arg_word = {}) =>
             matching_codes = {} /\ codes_only_in_excel = {} /\ codes_only_in_word = {}
        /\ arg_word = {} =>
             /\ matching_codes = {}
             /\ codes_only_in_excel = arg_excel
             /\ codes_only_in_word = {}

C7_Witness ==
    /\ calls >= 1
    /\ arg_word = {} /\ arg_excel # {}
    /\ codes_only_in_excel = arg_excel

\* C8: the table has the three columns, all as long as the largest of the
\* three sets; the cells of a column that are not None are the members of
\* its set, once each.
ColumnHolds(cells, codes, len) ==
    /\ Len(cells) = len
    /\ {cells[i] : i \in {j \in DOMAIN cells : cells[j] # None}} = codes
    /\ Cardinality({j \in DOMAIN cells : cells[j] # None}) = Cardinality(codes)

C8_TableColumns ==
    TableBuilt =>
        LET len == Max3(Cardinality(matching_codes), Cardinality(codes_only_in_excel),
                        Cardinality(codes_only_in_word))
        IN  /\ Len(result_df) = 3
            /\ result_df[1].name = "Matching codes"
            /\ result_df[2].name = "Codes only in Excel/CSV"
            /\ result_df[3].name = "Codes only in Word/TXT"
            /\ ColumnHolds(result_df[1].cells, matching_codes, len)
            /\ ColumnHolds(result_df[2].cells, codes_only_in_excel, len)
            /\ ColumnHolds(result_df[3].cells, codes_only_in_word, len)

C8_Witness ==
    /\ TableBuilt
    /\ Cardinality(matching_codes) = 1
    /\ Cardinality(codes_only_in_excel) = 2
    /\ Cardinality(codes_only_in_word) = 1
    /\ result_df[1].cells[2] = None
    /\ result_df[2].cells[2] # None

\* C9: a call of compare_codes leaves its two sets as they were, and a
\* second call on them returns what the first returned.
C9_CompareRepeatable ==
    /\ calls >= 1 => excel_codes = arg_excel /\ word_codes = arg_word
    /\ calls = 2 =>
         /\ matching_codes = first_result.matching_codes
         /\ codes_only_in_excel = first_result.codes_only_in_excel
         /\ codes_only_in_word = first_result.codes_only_in_word

C9_Witness ==
    /\ calls = 2
    /\ matching_codes # {} /\ codes_only_in_excel # {}

\* C10: two requests of a session with the same two files and pattern end
\* the same way, with the same three sets, whatever ran between them and
\* whichever of them ran first.
SameRequest(a, b) ==
    /\ a.code_file = b.code_file
    /\ a.text_file = b.text_file
    /\ a.custom_pattern = b.custom_pattern

C10_RequestsIsolated ==
    \A i, j \in DOMAIN log : SameRequest(log[i], log[j]) => log[i] = log[j]

C10_Witness ==
    /\ Len(log) = 3
    /\ SameRequest(log[1], log[3])
    /\ ~SameRequest(log[1], log[2])
    /\ log[2].raised # NoException
    /\ log[3].matching_codes # {}

====
